---- MODULE Spec2Model ----
(***************************************************************************)
(* The image upload widget of src/components/ImageUpload.tsx as a state    *)
(* machine.  The React state of one widget instance (isUploading, error,   *)
(* preview), the file input's value, the invocations of handleFileChange   *)
(* suspended at an await, the preview FileReaders whose read is pending,   *)
(* and what the widget has sent out: the requests to /api/ocr and the      *)
(* calls of onImageParsed.                                                 *)
(*                                                                         *)
(* Strings the code takes apart (MIME types, data URLs, base64 payloads)   *)
(* are sequences of one-character strings; the user-facing messages, which *)
(* the code only stores and tests for emptiness, are TLA+ strings, written *)
(* in English (the source's texts are quoted beside each).                 *)
(***************************************************************************)
EXTENDS Naturals, Sequences, FiniteSets

VARIABLES
    isUploading,  \* useState(false), line 11
    error,        \* useState(''), line 12
    preview,      \* useState<string | null>(null), line 13
    inputValue,   \* the file held by the <input type="file">, lines 99-106
    handlers,     \* invocations of handleFileChange suspended at an await
    readers,      \* preview FileReaders (line 36) whose read is pending
    requests,     \* the fetch calls issued so far (line 46), in order
    calls,        \* the calls of onImageParsed so far (line 62), in order
    nSel,         \* number of selections that passed validation so far
    lastDone,     \* how the most recently finished invocation ended, and
                  \* the value it handed to onImageParsed
    lastOp        \* the last step: "change", "cancel", or "async" for a
                  \* read, a request or a body read that settled

vars == <<isUploading, error, preview, inputValue, handlers, readers,
          requests, calls, nSel, lastDone, lastOp>>

\* Number of selections that pass validation in one run of the model.
MaxUploads == 2

(***************************************************************************)
(* JavaScript values                                                       *)
(***************************************************************************)
JsUndefined == [kind |-> "undefined", v |-> ""]
JsNull == [kind |-> "null", v |-> ""]
JsString(s) == [kind |-> "string", v |-> s]
JsObject(o) == [kind |-> "object", v |-> o]

\* ToBoolean, as `if (x)` and `x || y` apply it.
Truthy(x) == x.kind = "object" \/ (x.kind = "string" /\ x.v # "")

\* A plausible slip: x ?? y, which falls back only when x is missing.
OrElseWhenMissing(x, y) == IF x.kind \notin {"undefined", "null"} THEN x ELSE y

\* x || y
OrElse(x, y) == IF Truthy(x) THEN x ELSE y

\* String.prototype.startsWith
StartsWith(s, prefix) ==
    /\ Len(s) >= Len(prefix)
    /\ SubSeq(s, 1, Len(prefix)) = prefix

\* String.prototype.indexOf from position i, 0 when there is none
RECURSIVE IndexOf(_, _, _)
IndexOf(s, c, i) ==
    IF i > Len(s) THEN 0
    ELSE IF s[i] = c THEN i
    ELSE IndexOf(s, c, i + 1)

\* String.prototype.split with a one-character separator: the segments.
RECURSIVE Split(_, _)
Split(s, sep) ==
    LET k == IndexOf(s, sep, 1)
    IN IF k = 0 THEN <<s>>
       ELSE <<SubSeq(s, 1, k - 1)>> \o Split(SubSeq(s, k + 1, Len(s)), sep)

\* What JSON.stringify drops: an undefined payload.
UndefinedPayload == <<"undefined">>

(***************************************************************************)
(* Base64 and data URLs, as FileReader.readAsDataURL produces them         *)
(***************************************************************************)
Base64Alphabet ==
    <<"A","B","C","D","E","F","G","H","I","J","K","L","M",
      "N","O","P","Q","R","S","T","U","V","W","X","Y","Z",
      "a","b","c","d","e","f","g","h","i","j","k","l","m",
      "n","o","p","q","r","s","t","u","v","w","x","y","z",
      "0","1","2","3","4","5","6","7","8","9","+","/">>

Base64Char(n) == Base64Alphabet[n + 1]

RECURSIVE Base64Encode(_)
Base64Encode(bytes) ==
    IF Len(bytes) = 0 THEN <<>>
    ELSE IF Len(bytes) = 1 THEN
        <<Base64Char(bytes[1] \div 4),
          Base64Char((bytes[1] % 4) * 16), "=", "=">>
    ELSE IF Len(bytes) = 2 THEN
        <<Base64Char(bytes[1] \div 4),
          Base64Char((bytes[1] % 4) * 16 + bytes[2] \div 16),
          Base64Char((bytes[2] % 16) * 4), "=">>
    ELSE
        <<Base64Char(bytes[1] \div 4),
          Base64Char((bytes[1] % 4) * 16 + bytes[2] \div 16),
          Base64Char((bytes[2] % 16) * 4 + bytes[3] \div 64),
          Base64Char(bytes[3] % 64)>>
        \o Base64Encode(SubSeq(bytes, 4, Len(bytes)))

DataPrefix == <<"d","a","t","a",":">>
Base64Marker == <<";","b","a","s","e","6","4",",">>

\* reader.result after readAsDataURL(file)
readAsDataURL(file) ==
    DataPrefix \o file.type \o Base64Marker \o Base64Encode(file.content)

\* A plausible slip: the data URL is sent whole, its prefix not stripped.
fileToBase64KeepsPrefix(file) == readAsDataURL(file)

\* The value fileToBase64 resolves with: (reader.result).split(',')[1]
fileToBase64(file) ==
    LET parts == Split(readAsDataURL(file), ",")
    IN IF Len(parts) >= 2 THEN parts[2] ELSE UndefinedPayload

(***************************************************************************)
(* Files the user can pick                                                 *)
(***************************************************************************)
ImagePrefix == <<"i","m","a","g","e","/">>
TypePng == <<"i","m","a","g","e","/","p","n","g">>
TypeJpeg == <<"i","m","a","g","e","/","j","p","e","g">>
TypeText == <<"t","e","x","t","/","p","l","a","i","n">>
TypeUnknown == <<>>

\* 5 * 1024 * 1024, line 26
MaxFileSize == 5 * 1024 * 1024

\* e.target.files is empty: the dialog was dismissed.
NoFile == [name |-> "", type |-> <<>>, size |-> 0, content |-> <<>>]

\* size is what file.size reports and content the bytes a FileReader
\* delivers; for the files at the size limit content stands for the
\* file's bytes by a short sequence.  The contents read cover the three
\* endings of base64: a whole group, one byte left, two bytes left.
Files ==
    { [name |-> "receipt.png", type |-> TypePng, size |-> 5,
       content |-> <<77, 97, 110, 33, 10>>],
      [name |-> "limit.jpg", type |-> TypeJpeg, size |-> MaxFileSize,
       content |-> <<255, 216, 255, 224>>],
      [name |-> "over.png", type |-> TypePng, size |-> MaxFileSize + 1,
       content |-> <<137>>],
      [name |-> "notes.txt", type |-> TypeText, size |-> 2,
       content |-> <<104, 105>>],
      [name |-> "dump", type |-> TypeUnknown, size |-> MaxFileSize + 1,
       content |-> <<104>>] }

\* The data URL and the payload of each file, computed once per file.
DataURLOf == [f \in Files |-> readAsDataURL(f)]
PayloadOf == [f \in Files |-> fileToBase64(f)]

\* file.type.startsWith('image/'), line 20
IsImage(file) == StartsWith(file.type, ImagePrefix)

\* A plausible slip: the limit itself is refused.
TooLargeInclusive(file) == file.size >= MaxFileSize

\* file.size > 5 * 1024 * 1024, line 26
TooLarge(file) == file.size > MaxFileSize

(***************************************************************************)
(* Messages                                                                *)
(***************************************************************************)
MsgNotImage == "Please upload an image file"            \* line 21
MsgTooLarge == "Image size must not exceed 5MB"         \* line 27
MsgOcrFailed == "OCR recognition failed"                \* line 56
MsgUnrecognized == "Could not recognize image content"  \* line 67
MsgRetry == "OCR recognition failed, please retry"      \* line 70
\* Messages of the errors the platform throws.
MsgNetwork == "Failed to fetch"
MsgSyntax == "Unexpected token < in JSON"
MsgNullRead == "Cannot read properties of null"

(***************************************************************************)
(* Responses of the OCR endpoint                                           *)
(***************************************************************************)
\* text: whether the body is JSON at all, and then null or an object
Body(text, err, data) == [text |-> text, error |-> err, data |-> data]

Response(ok, body) == [ok |-> ok, body |-> body]

\* Non-success responses with and without an error text, success responses
\* with and without a result, and bodies that are not a JSON object.
Responses ==
    { Response(FALSE, Body("not json", JsUndefined, JsUndefined)),
      Response(FALSE, Body("null", JsUndefined, JsUndefined)),
      Response(FALSE, Body("object", JsUndefined, JsUndefined)),
      Response(FALSE, Body("object", JsString(""), JsUndefined)),
      Response(FALSE, Body("object", JsString("quota exceeded"), JsUndefined)),
      Response(FALSE, Body("object", JsUndefined, JsObject("receipt A"))),
      Response(TRUE, Body("not json", JsUndefined, JsUndefined)),
      Response(TRUE, Body("null", JsUndefined, JsUndefined)),
      Response(TRUE, Body("object", JsUndefined, JsUndefined)),
      Response(TRUE, Body("object", JsUndefined, JsNull)),
      Response(TRUE, Body("object", JsUndefined, JsObject("receipt A"))),
      Response(TRUE, Body("object", JsString("note"), JsObject("receipt B"))) }

NoResponse == [ok |-> FALSE, body |-> Body("none", JsUndefined, JsUndefined)]

NullPreview == [set |-> FALSE, url |-> <<>>]
Preview(url) == [set |-> TRUE, url |-> url]

NoneDone == [id |-> 0, kind |-> "none", data |-> JsUndefined]

Init ==
    /\ isUploading = FALSE
    /\ error = ""
    /\ preview = NullPreview
    /\ inputValue = NoFile
    /\ handlers = {}
    /\ readers = {}
    /\ requests = <<>>
    /\ calls = <<>>
    /\ nSel = 0
    /\ lastDone = NoneDone
    /\ lastOp = "init"

(***************************************************************************)
(* handleFileChange, lines 15-75, cut at its awaits                        *)
(***************************************************************************)
\* A plausible slip: the input stays enabled during an upload.
PickerNeverDisabled == FALSE

\* disabled={isUploading}, line 105
PickerDisabled == isUploading

\* String(x), as new Error(x) applies it to its argument
ToString(x) == IF x.kind = "string" THEN x.v ELSE "[object Object]"

\* new Error(x).message
ErrorMessageOf(x) == JsString(ToString(x))

\* The change event, lines 16-43: from the selection to the first await.
\* It fires when the input's selection changes, and not on a disabled input.
handleFileChange(f) ==
    /\ ~PickerDisabled
    /\ f # inputValue
    /\ inputValue' = f
    /\ lastOp' = "change"
    /\ UNCHANGED <<preview, requests, calls, lastDone>>
    /\ \/ /\ f = NoFile
          /\ UNCHANGED <<isUploading, error, handlers, readers, nSel>>
       \/ /\ f # NoFile
          /\ ~IsImage(f)
          /\ error' = MsgNotImage
          /\ UNCHANGED <<isUploading, handlers, readers, nSel>>
       \/ /\ f # NoFile
          /\ IsImage(f)
          /\ TooLarge(f)
          /\ error' = MsgTooLarge
          /\ UNCHANGED <<isUploading, handlers, readers, nSel>>
       \/ /\ f # NoFile
          /\ IsImage(f)
          /\ ~TooLarge(f)
          /\ nSel < MaxUploads
          /\ error' = ""
          /\ isUploading' = TRUE
          /\ nSel' = nSel + 1
          /\ readers' = readers \cup {[id |-> nSel + 1, file |-> f]}
          /\ handlers' = handlers \cup
                 {[id |-> nSel + 1, file |-> f, pc |-> "encode",
                   resp |-> NoResponse]}

\* reader.onload of the preview reader, lines 37-39
PreviewOnload(r) ==
    /\ preview' = Preview(DataURLOf[r.file])
    /\ readers' = readers \ {r}
    /\ lastOp' = "async"
    /\ UNCHANGED <<isUploading, error, inputValue, handlers, requests,
                   calls, nSel, lastDone>>

\* The preview read fails: the reader has no onerror, lines 36-40.
PreviewFail(r) ==
    /\ readers' = readers \ {r}
    /\ lastOp' = "async"
    /\ UNCHANGED <<isUploading, error, preview, inputValue, handlers,
                   requests, calls, nSel, lastDone>>

\* A plausible slip: the flag is released on the success path only.
CatchWithoutFinally(h, message, kind) ==
    /\ error' = OrElse(message, JsString(MsgRetry)).v
    /\ handlers' = handlers \ {h}
    /\ lastDone' = [id |-> h.id, kind |-> kind, data |-> JsUndefined]
    /\ UNCHANGED <<isUploading, preview, inputValue, calls>>

\* catch (err) { setError(err.message || ...) } finally
\* { setIsUploading(false) }, lines 69-74
CatchFinally(h, message, kind) ==
    /\ error' = OrElse(message, JsString(MsgRetry)).v
    /\ isUploading' = FALSE
    /\ handlers' = handlers \ {h}
    /\ lastDone' = [id |-> h.id, kind |-> kind, data |-> JsUndefined]
    /\ UNCHANGED <<preview, inputValue, calls>>

\* A plausible slip: the result is handed over twice.
DeliverTwice(h) ==
    /\ calls' = calls \o <<[id |-> h.id, data |-> h.resp.body.data],
                           [id |-> h.id, data |-> h.resp.body.data]>>
    /\ preview' = NullPreview
    /\ inputValue' = NoFile
    /\ isUploading' = FALSE
    /\ handlers' = handlers \ {h}
    /\ lastDone' = [id |-> h.id, kind |-> "delivered",
                    data |-> h.resp.body.data]
    /\ UNCHANGED error

\* onImageParsed(result.data); setPreview(null); e.target.value = '',
\* lines 62-65, and the finally of line 73
Deliver(h) ==
    /\ calls' = Append(calls, [id |-> h.id, data |-> h.resp.body.data])
    /\ preview' = NullPreview
    /\ inputValue' = NoFile
    /\ isUploading' = FALSE
    /\ handlers' = handlers \ {h}
    /\ lastDone' = [id |-> h.id, kind |-> "delivered",
                    data |-> h.resp.body.data]
    /\ UNCHANGED error

\* reader.onload of fileToBase64 resolves the await of line 43, and the
\* request is issued, lines 46-52.
EncodeOnload(h) ==
    /\ h.pc = "encode"
    /\ requests' = Append(requests, [id |-> h.id, image |-> PayloadOf[h.file]])
    /\ handlers' = (handlers \ {h}) \cup {[h EXCEPT !.pc = "fetch"]}
    /\ lastOp' = "async"
    /\ UNCHANGED <<isUploading, error, preview, inputValue, readers, calls,
                   nSel, lastDone>>

\* reader.onerror of fileToBase64 rejects with the event, line 167: it has
\* no message.
EncodeOnerror(h) ==
    /\ h.pc = "encode"
    /\ CatchFinally(h, JsUndefined, "read failed")
    /\ lastOp' = "async"
    /\ UNCHANGED <<readers, requests, nSel>>

\* fetch resolves with a response, line 46; its body is read next.
FetchResolve(h, resp) ==
    /\ h.pc = "fetch"
    /\ handlers' = (handlers \ {h}) \cup {[h EXCEPT !.pc = "json", !.resp = resp]}
    /\ lastOp' = "async"
    /\ UNCHANGED <<isUploading, error, preview, inputValue, readers,
                   requests, calls, nSel, lastDone>>

\* fetch rejects: a network error.
FetchReject(h) ==
    /\ h.pc = "fetch"
    /\ CatchFinally(h, JsString(MsgNetwork), "network error")
    /\ lastOp' = "async"
    /\ UNCHANGED <<readers, requests, nSel>>

\* response.json() settles, lines 55 and 59, and the rest of the try runs.
JsonSettled(h) ==
    /\ h.pc = "json"
    /\ lastOp' = "async"
    /\ UNCHANGED <<readers, requests, nSel>>
    /\ \/ /\ h.resp.body.text = "not json"
          /\ CatchFinally(h, JsString(MsgSyntax), "body error")
       \/ /\ h.resp.body.text = "null"
          /\ CatchFinally(h, JsString(MsgNullRead), "body error")
       \/ /\ h.resp.body.text = "object"
          /\ ~h.resp.ok
          /\ CatchFinally(h,
                 ErrorMessageOf(OrElse(h.resp.body.error, JsString(MsgOcrFailed))),
                 "service error")
       \/ /\ h.resp.body.text = "object"
          /\ h.resp.ok
          /\ Truthy(h.resp.body.data)
          /\ Deliver(h)
       \/ /\ h.resp.body.text = "object"
          /\ h.resp.ok
          /\ ~Truthy(h.resp.body.data)
          /\ CatchFinally(h, ErrorMessageOf(JsString(MsgUnrecognized)),
                          "empty result")

\* A plausible slip: cancelling also releases the uploading flag.
handleCancelReleases ==
    /\ preview' = NullPreview
    /\ error' = ""
    /\ isUploading' = FALSE

\* handleCancel, lines 77-80
handleCancel ==
    /\ preview' = NullPreview
    /\ error' = ""
    /\ UNCHANGED isUploading

\* The cancel button is rendered when preview is set, lines 111 and 118-120.
CancelOffered == preview.set

Cancel ==
    /\ CancelOffered
    /\ handleCancel
    /\ lastOp' = "cancel"
    /\ UNCHANGED <<inputValue, handlers, readers, requests, calls, nSel,
                   lastDone>>

Progress ==
    \E h \in handlers :
        \/ EncodeOnload(h)
        \/ EncodeOnerror(h)
        \/ \E resp \in Responses : FetchResolve(h, resp)
        \/ FetchReject(h)
        \/ JsonSettled(h)

Next ==
    \/ \E f \in Files \cup {NoFile} : handleFileChange(f)
    \/ \E r \in readers : PreviewOnload(r)
    \/ \E r \in readers : PreviewFail(r)
    \/ Progress
    \/ Cancel

Spec == Init /\ [][Next]_vars

\* Every pending read and request settles: the encode read loads or fails,
\* the request resolves or rejects, the body read settles.
LiveSpec == Spec /\ WF_vars(Progress)

(***************************************************************************)
(* Properties                                                              *)
(***************************************************************************)
\* The requests issued for selection id, and the callbacks fired for it.
RequestsOf(id) == {i \in DOMAIN requests : requests[i].id = id}
CallsOf(id) == {i \in DOMAIN calls : calls[i].id = id}

\* C1: at most one upload is in flight in every reachable state: while
\* isUploading is set exactly one invocation of handleFileChange is
\* suspended, and none while it is clear, so no second selection starts an
\* upload before the first has completed.
C1_OneUploadInFlight ==
    /\ Cardinality(handlers) <= 1
    /\ isUploading <=> handlers # {}
    /\ Cardinality({h \in handlers : h.pc = "fetch"}) <= 1

\* C1 witness: a second upload is in flight, started after the first ended.
C1_Witness == isUploading /\ nSel = 2 /\ lastDone.id = 1

\* C2: the widget starts idle, and whenever it is uploading it is
\* eventually idle again, given that every pending read and request settles.
C2_ReturnsToIdle == (isUploading = FALSE) /\ (isUploading ~> ~isUploading)

\* C2 witness: an upload whose body read threw has ended and the widget is
\* idle.
C2_Witness == ~isUploading /\ lastDone.kind = "body error"

\* C3: a selection of a file whose type does not begin with "image/", or
\* whose size is above 5,242,880, sets the matching message and starts
\* nothing: no invocation suspended, no reader, no request, no callback,
\* isUploading still clear; an image of exactly 5,242,880 bytes is accepted.
C3_ValidationRejects ==
    [][(lastOp' = "change" /\ inputValue' # NoFile) =>
        LET f == inputValue'
            image == /\ Len(f.type) >= 6
                     /\ SubSeq(f.type, 1, 6) = <<"i","m","a","g","e","/">>
            nothingStarted ==
                /\ isUploading' = FALSE
                /\ handlers' = handlers /\ handlers = {}
                /\ readers' = readers
                /\ requests' = requests
                /\ calls' = calls
        IN /\ ~image => (error' = MsgNotImage /\ nothingStarted)
           /\ (image /\ f.size > 5242880) =>
                  (error' = MsgTooLarge /\ nothingStarted)
           /\ (image /\ f.size = 5242880) =>
                  (isUploading' /\ error' = "" /\ handlers' # {})
      ]_vars

\* C3 witness: an image above the limit has just been refused.
C3_Witness ==
    /\ lastOp = "change"
    /\ inputValue.size > MaxFileSize
    /\ error = MsgTooLarge

\* C4 as stated: every valid selection whose upload has ended has had
\* exactly one request issued for it.
C4_ExactlyOneRequest ==
    \A id \in 1..nSel :
        (\A h \in handlers : h.id # id) => Cardinality(RequestsOf(id)) = 1

\* C4 amended: a request is issued only when the encode read of a suspended
\* invocation loads, it is the first for that selection, and its image is
\* the base64 of the file's content with no data-URI prefix; when the
\* encode read fails the invocation ends with no request.
C4_AtMostOneRequest ==
    [][/\ \A h \in handlers :
            (h.pc = "encode" /\ h \notin handlers') =>
                \/ /\ requests' = requests
                   /\ lastDone' = [id |-> h.id, kind |-> "read failed",
                                   data |-> JsUndefined]
                \/ /\ RequestsOf(h.id) = {}
                   /\ requests' = Append(requests,
                          [id |-> h.id, image |-> Base64Encode(h.file.content)])
       /\ requests' # requests =>
            \E h \in handlers : h.pc = "encode" /\ h \notin handlers'
      ]_vars

\* C4 witness: the request for the bytes of "Man!" and a line feed
\* carries "TWFuIQo=".
C4_Witness ==
    /\ Len(requests) = 1
    /\ requests[1].image = <<"T","W","F","u","I","Q","o","=">>

\* C5: once an upload that got a success response with a result has
\* ended, the callback has been invoked exactly once for it, with that
\* value, and preview is empty.
C5_DeliveredOnceAndPreviewEmpty ==
    (handlers = {} /\ lastDone.kind = "delivered" /\ lastDone.id = nSel) =>
        /\ Cardinality(CallsOf(nSel)) = 1
        /\ \A i \in CallsOf(nSel) : calls[i].data = lastDone.data
        /\ ~preview.set

\* C6 as stated: a response that delivers nothing never invokes the
\* callback; a non-success response sets error to the body's error field
\* when it has one and otherwise to a fallback message, and a success
\* response with no data field sets the could-not-recognize message.
C6_ErrorFromResponse ==
    [][\A h \in handlers :
        (h.pc = "json" /\ h \notin handlers') =>
            LET body == h.resp.body
                hasError == body.text = "object" /\ body.error.kind # "undefined"
                hasData == body.text = "object" /\ body.data.kind # "undefined"
            IN /\ ~h.resp.ok =>
                    /\ calls' = calls
                    /\ hasError => error' = body.error.v
                    /\ ~hasError => error' \in {MsgOcrFailed, MsgRetry}
               /\ (h.resp.ok /\ ~hasData) =>
                    /\ calls' = calls
                    /\ error' = MsgUnrecognized
      ]_vars

\* C6 amended: a response that delivers nothing never invokes the callback
\* and leaves error non-empty.  When the body is a JSON object: a
\* non-success response sets error to the body's error field when that is
\* a non-empty string and otherwise to the OCR-failed fallback, and a
\* success response whose data is missing or falsy sets the
\* could-not-recognize message.  When the body is not JSON, or is null,
\* error is the message of the exception thrown while reading it.
C6_ErrorFromObjectBody ==
    [][\A h \in handlers :
        (h.pc = "json" /\ h \notin handlers') =>
            LET body == h.resp.body
                delivers == /\ h.resp.ok
                            /\ body.text = "object"
                            /\ body.data.kind = "object"
                nonEmptyError == /\ body.error.kind = "string"
                                 /\ body.error.v # ""
            IN ~delivers =>
                /\ calls' = calls
                /\ error' # ""
                /\ (body.text = "object" /\ ~h.resp.ok /\ nonEmptyError) =>
                        error' = body.error.v
                /\ (body.text = "object" /\ ~h.resp.ok /\ ~nonEmptyError) =>
                        error' = MsgOcrFailed
                /\ (body.text = "object" /\ h.resp.ok) =>
                        error' = MsgUnrecognized
                /\ body.text = "not json" => error' = MsgSyntax
                /\ body.text = "null" => error' = MsgNullRead
      ]_vars

\* C6 witness: a non-success response's error text is shown.
C6_Witness ==
    /\ lastDone.kind = "service error"
    /\ error = "quota exceeded"
    /\ calls = <<>>

\* C7: a cancel clears preview and error and changes nothing else: not
\* isUploading, not the suspended invocation, not the pending preview
\* reads, not the requests issued, not the callbacks fired.
C7_CancelFrame ==
    [][lastOp' = "cancel" =>
        /\ preview' = NullPreview
        /\ error' = ""
        /\ UNCHANGED <<isUploading, inputValue, handlers, readers, requests,
                       calls, nSel>>
      ]_vars

\* C7 witness: a cancel taken while the request is outstanding.
C7_Witness ==
    /\ lastOp = "cancel"
    /\ \E h \in handlers : h.pc = "fetch"
    /\ Len(requests) = 1

\* C8: callbacks and requests never outnumber the selections that passed
\* validation, and no selection gets two callbacks or two requests.
C8_NoCallbackWithoutSelection ==
    /\ Len(calls) <= nSel
    /\ Len(requests) <= nSel
    /\ \A id \in 1..nSel : Cardinality(CallsOf(id)) <= 1
    /\ \A id \in 1..nSel : Cardinality(RequestsOf(id)) <= 1
    /\ \A i \in DOMAIN calls : calls[i].id \in 1..nSel
    /\ \A i, j \in DOMAIN calls : i < j => calls[i].id < calls[j].id

\* C8 witness: two selections, each answered by one callback.
C8_Witness == nSel = 2 /\ Len(calls) = 2 /\ handlers = {}

\* C9: the preview read of the latest selection, settling after that
\* selection's upload has delivered its result, leaves preview as the
\* read settling first leaves it: empty.
C9_OrderIndependent ==
    [][\A r \in readers :
        (r \notin readers' /\ r.id = nSel /\ CallsOf(r.id) # {}) =>
            ~preview'.set
      ]_vars

\* C10 as stated: whenever the cancel button is offered the widget is idle.
C10_CancelOnlyWhileIdle == CancelOffered => ~isUploading

\* C10 amended: the cancel button is offered whenever preview is set, also
\* during an upload; a cancel taken during an upload leaves it uploading,
\* with its invocation still suspended.
C10_CancelLeavesUpload ==
    [][(lastOp' = "cancel" /\ isUploading) =>
        (isUploading' /\ handlers' = handlers /\ handlers' # {})
      ]_vars

\* C10 witness: a cancel was taken during the only upload so far.
C10_Witness == lastOp = "cancel" /\ isUploading /\ nSel = 1

====
